---- MODULE Spec2Model ----
(***************************************************************************)
(* omsflow: the order orchestration engine.                                *)
(*   core/oms.py             OrderManagementSystem                         *)
(*   monitoring/lifecycle.py OrderLifecycleManager                         *)
(*   validation/engine.py    ValidationEngine and its rules                *)
(*   models/order.py         Order, OrderStatus, OrderExecutionResult      *)
(* Coroutines are processes whose positions are the awaits at which they   *)
(* can be suspended; everything between two awaits is one atomic step of   *)
(* the event loop.                                                         *)
(***************************************************************************)
EXTENDS Integers, Sequences, FiniteSets, Bags, TLC

\* ------------------------------------------------------------------ bounds
NumOrders == 2
MaxMonitors == 2
MaxIngest == 1
\* the most rules registered with the engine used on its own
MaxRules == 2

\* ------------------------------------------------------- program constants
max_retries == 3

OrderIds == 1..NumOrders
IngestIds == 1..MaxIngest

\* Optional[T]: None is the empty set, a value v is {v}.
None == {}
Some(v) == {v}
IsNone(x) == x = {}
Val(x) == CHOOSE v \in x : TRUE
\* Python truthiness of an Optional[float]: None and 0 are falsy.
Truthy(x) == x # {} /\ x # {0}
\* Python truthiness of an Optional[str]: None and "" are falsy.
TruthyStr(x) == x # {} /\ x # {""}

\* models/order.py OrderStatus
OrderStatus == {"PENDING", "VALIDATED", "SUBMITTED", "PARTIALLY_FILLED",
                "FILLED", "CANCELLED", "REJECTED", "ERROR"}
TerminalStatus == {"FILLED", "CANCELLED", "REJECTED", "ERROR"}
MonitoredStatus == {"SUBMITTED", "PARTIALLY_FILLED"}

VARIABLES
  orders,                 \* the Order objects, by order_id
  active_orders,          \* lifecycle_manager.active_orders (its keys)
  monitors,               \* the live _monitor_order tasks, a bag per order
  _running,               \* OrderManagementSystem._running
  _order_processor_task,  \* OrderManagementSystem._order_processor_task (0: None or done)
  ingest,                 \* the _process_orders tasks
  acked,                  \* orders acknowledged at the Order Source
  start_call,             \* the start() coroutine in flight
  stop_call,              \* the stop() coroutine in flight
  submit_call,            \* the submit_order() coroutine in flight
  cancel_call,            \* the cancel_order() coroutine in flight
  replace_call,           \* the replace_order() coroutine in flight
  validation              \* a ValidationEngine used on its own: its rules, and
                          \* the last validate_order call with what it returned

vars == <<orders, active_orders, monitors, _running, _order_processor_task, ingest,
          acked, start_call, stop_call,
          submit_call, cancel_call, replace_call, validation>>

\* ------------------------------------------------------------ validation
\* main.py builds the engine with these two rules, in this order.
Config ==
  [max_price_deviation_num |-> 5, max_price_deviation_den |-> 100,
   max_position_value |-> 1000]

Abs(x) == IF x < 0 THEN 0 - x ELSE x

\* dict.get(key) and dict.get(key, default) on a context bag whose values
\* are Optional numbers.
Get(context, key) == IF key \in DOMAIN context THEN context[key] ELSE None
GetOr(context, key, default) ==
  IF key \in DOMAIN context THEN context[key] ELSE Some(default)

\* line 94 with the warnings counted as well
ValidationResultCountsWarnings(errors, warnings) ==
  [raised |-> FALSE, is_valid |-> Len(errors) + Len(warnings) = 0,
   errors |-> errors, warnings |-> warnings]

\* OrderValidationResult; raised marks an exception leaving the rule instead.
ValidationResult(errors, warnings) ==
  [raised |-> FALSE, is_valid |-> Len(errors) = 0, errors |-> errors,
   warnings |-> warnings]
RuleResult(is_valid, errors) ==
  [raised |-> FALSE, is_valid |-> is_valid, errors |-> errors, warnings |-> <<>>]
Raised == [raised |-> TRUE, is_valid |-> FALSE, errors |-> <<>>, warnings |-> <<>>]

\* abs(price - market_price) / market_price > num/den, in exact arithmetic
DeviationExceeds(price, market_price, num, den) ==
  IF market_price > 0
    THEN Abs(price - market_price) * den > num * market_price
    ELSE Abs(price - market_price) * den < num * market_price

\* lines 22-46 without the exemption of lines 23-24
PriceValidationRuleForAllStyles(rule, order, context) ==
  IF ~Truthy(Get(context, "market_price"))
    THEN RuleResult(FALSE, <<"Market price not available for validation">>)
  ELSE IF ~Truthy(order.price)
    THEN RuleResult(FALSE, <<"Price is required for limit orders">>)
  ELSE IF DeviationExceeds(Val(order.price), Val(Get(context, "market_price")),
                           rule.num, rule.den)
    THEN RuleResult(FALSE, <<"Price deviation exceeds maximum">>)
  ELSE RuleResult(TRUE, <<>>)

PriceValidationRule(rule, order, context) ==
  IF order.order_type = "MARKET" THEN RuleResult(TRUE, <<>>)
  ELSE IF ~Truthy(Get(context, "market_price"))
    THEN RuleResult(FALSE, <<"Market price not available for validation">>)
  ELSE IF ~Truthy(order.price)
    THEN RuleResult(FALSE, <<"Price is required for limit orders">>)
  ELSE IF DeviationExceeds(Val(order.price), Val(Get(context, "market_price")),
                           rule.num, rule.den)
    THEN RuleResult(FALSE, <<"Price deviation exceeds maximum">>)
  ELSE RuleResult(TRUE, <<>>)

PositionLimitRule(rule, order, context) ==
  LET current_position == GetOr(context, "current_position", 0)
      unit == IF Truthy(order.price) THEN order.price
              ELSE GetOr(context, "market_price", 0)
  IN  \* arithmetic on None raises TypeError
      IF IsNone(unit) \/ IsNone(current_position) THEN Raised
      ELSE IF Val(current_position) + order.quantity * Val(unit) > rule.max_position_value
        THEN RuleResult(FALSE, <<"Order value would exceed position limit">>)
      ELSE RuleResult(TRUE, <<>>)

\* A rule of another ValidationRule subclass (lines 7-13), which answers what
\* it was built to answer.
CustomRule(rule, order, context) ==
  [raised |-> FALSE, is_valid |-> rule.is_valid, errors |-> rule.errors,
   warnings |-> rule.warnings]

RuleValidate(rule, order, context) ==
  IF rule.kind = "price" THEN PriceValidationRule(rule, order, context)
  ELSE IF rule.kind = "position" THEN PositionLimitRule(rule, order, context)
  ELSE CustomRule(rule, order, context)

RECURSIVE RunRules(_, _, _, _, _)
RunRules(rules, order, context, all_errors, all_warnings) ==
  IF rules = <<>> THEN ValidationResult(all_errors, all_warnings)
  ELSE LET result == RuleValidate(Head(rules), order, context)
       IN  IF result.raised THEN Raised
           ELSE RunRules(Tail(rules), order, context,
                         all_errors \o result.errors,
                         all_warnings \o result.warnings)

validate_order(rules, order, context) == RunRules(rules, order, context, <<>>, <<>>)

\* The engine main.py wires into the OrderManagementSystem.
EngineRules ==
  << [kind |-> "price", num |-> Config.max_price_deviation_num,
      den |-> Config.max_price_deviation_den],
     [kind |-> "position", max_position_value |-> Config.max_position_value] >>

\* The context both _process_orders and submit_order pass: broker_refdata only.
OmsContext == [k \in {"broker_refdata"} |-> None]

OmsValidate(o) == validate_order(EngineRules, orders[o], OmsContext)

\* ------------------------------------------------------------------ orders
\* The candidate orders: odd ids are MARKET orders without a price, even ids
\* LIMIT orders; every order is built with the default status PENDING.
InitialOrder(o) ==
  [order_type |-> IF o % 2 = 1 THEN "MARKET" ELSE "LIMIT",
   price |-> IF o % 2 = 1 THEN None ELSE Some(100),
   quantity |-> 10,
   status |-> "PENDING",
   execution_id |-> None]

\* ------------------------------------------------------ lifecycle manager
\* A _monitor_order task: where it is suspended (the sleep or the status
\* query), its retry_count, whether _monitoring_tasks holds it, and whether
\* cancel() was called on it (it then ends when the event loop resumes it).
\* seen is a history field that no step reads: the status the order had when
\* the task sent the status query it is waiting for ("" while it sleeps).
NewMonitor ==
  [pc |-> "sleep", retry_count |-> 0, tracked |-> TRUE, cancelled |-> FALSE,
   seen |-> ""]

One(m) == SetToBag({m})
Mons(o) == BagToSet(monitors[o])

RECURSIVE SumCard(_, _)
SumCard(mons, S) ==
  IF S = {} THEN 0
  ELSE LET o == CHOOSE x \in S : TRUE
       IN  BagCardinality(mons[o]) + SumCard(mons, S \ {o})
LiveMonitors(mons) == SumCard(mons, OrderIds)

\* add_order line 131: which orders get a monitoring task
ShouldMonitor(order) == order.status \in MonitoredStatus

\* asyncio.create_task(self._monitor_order(order)); _monitoring_tasks.add(task)
Spawn(mons, o) == [mons EXCEPT ![o] = @ (+) One(NewMonitor)]
\* the task ends; its done callback discards it from _monitoring_tasks
Finish(mons, o, m) == [mons EXCEPT ![o] = @ (-) One(m)]
Move(mons, o, m, m2) == [mons EXCEPT ![o] = (@ (-) One(m)) (+) One(m2)]

\* add_order: the effect on active_orders and on the monitoring tasks
add_order_active(active, o) == active \cup {o}
add_order_monitors(mons, ords, o) ==
  IF ShouldMonitor(ords[o]) THEN Spawn(mons, o) ELSE mons

\* lines 139-142 with active_orders.clear() in place of the del
remove_order_clears(active, o) == {}

\* remove_order: deletes the entry; the monitoring tasks are not touched
remove_order_active(active, o) == active \ {o}

\* start_monitoring: one new task per active order in a monitored status
start_monitoring(mons, ords, active) ==
  [o \in OrderIds |->
     IF o \in active /\ ShouldMonitor(ords[o])
       THEN mons[o] (+) One(NewMonitor) ELSE mons[o]]

\* stop_monitoring, before the gather: task.cancel() on every task in the set
CancelOne(m) == IF m.tracked THEN [m EXCEPT !.cancelled = TRUE] ELSE m
cancel_monitoring_tasks(mons) ==
  [o \in OrderIds |-> BagOfAll(CancelOne, mons[o])]
\* stop_monitoring, after the gather: _monitoring_tasks.clear()
Untrack(m) == [m EXCEPT !.tracked = FALSE]
clear_monitoring_tasks(mons) ==
  [o \in OrderIds |-> BagOfAll(Untrack, mons[o])]
AnyTracked(mons) == \E o \in OrderIds : \E m \in BagToSet(mons[o]) : m.tracked
AnyCancelled(mons) ==
  \E o \in OrderIds : \E m \in BagToSet(mons[o]) : m.cancelled

\* update_order_status on a tracked order
update_order(order, new_status, execution_id) ==
  [order EXCEPT !.status = new_status,
                !.execution_id = IF TruthyStr(execution_id) THEN execution_id ELSE @]

\* exactly the variables of the lifecycle manager and the orders
omsVars == <<_running, _order_processor_task, ingest, acked, start_call, stop_call>>
callVars == <<submit_call, cancel_call, replace_call, validation>>

\* ------------------------------------------------------- _monitor_order
\* line 78: the sleep of the polling interval ends and the status query is sent
MonitorWake(o, m) ==
  /\ m \in Mons(o) /\ m.pc = "sleep" /\ ~m.cancelled
  /\ monitors' = Move(monitors, o, m,
                      [m EXCEPT !.pc = "query", !.seen = orders[o].status])
  /\ UNCHANGED <<orders, active_orders, omsVars, callVars>>

\* What the monitor does with the answer to get_order_status (lines 86-125).
\*   failed     result.success is False
\*   execution  success, with an execution_id
\*   success    success, without one: line 103 then reads result.status, which
\*              OrderExecutionResult does not have (AttributeError, caught at
\*              line 118)
\*   raised     the query raised
\* lines 99-102 without the break: a fill does not end the monitor
MonitorEndsNotOnFill(m, r) ==
  \/ r = "failed" /\ m.retry_count + 1 >= max_retries
  \/ r \in {"success", "raised"}

\* line 89 with > in place of >=: one more failed query is tolerated
MonitorEndsLate(m, r) ==
  \/ r = "failed" /\ m.retry_count + 1 > max_retries
  \/ r \in {"execution", "success", "raised"}

MonitorEnds(m, r) ==
  \/ r = "failed" /\ m.retry_count + 1 >= max_retries
  \/ r \in {"execution", "success", "raised"}

\* lines 98-105 as they would be with a reported status and a counter that
\* restarts: a success without execution_id keeps the monitor, retry_count 0
MonitorStatusResetsCounter(o, m, r) ==
  /\ m \in Mons(o) /\ m.pc = "query" /\ ~m.cancelled
  /\ monitors' =
       IF r = "success"
         THEN Move(monitors, o, m,
                   [m EXCEPT !.pc = "sleep", !.retry_count = 0, !.seen = ""])
       ELSE IF MonitorEnds(m, r) THEN Finish(monitors, o, m)
       ELSE Move(monitors, o, m,
                 [m EXCEPT !.pc = "sleep", !.retry_count = m.retry_count + 1,
                           !.seen = ""])
  /\ orders' = IF r = "execution"
                 THEN [orders EXCEPT ![o].status = "FILLED"] ELSE orders
  /\ UNCHANGED <<active_orders, omsVars, callVars>>

\* lines 118-125 with a write in the handler: a query that raised marks the
\* order REJECTED
MonitorStatusRaiseRejects(o, m, r) ==
  /\ m \in Mons(o) /\ m.pc = "query" /\ ~m.cancelled
  /\ monitors' =
       IF MonitorEnds(m, r) THEN Finish(monitors, o, m)
       ELSE Move(monitors, o, m,
                 [m EXCEPT !.pc = "sleep", !.retry_count = m.retry_count + 1,
                           !.seen = ""])
  /\ orders' = IF r = "execution"
                 THEN [orders EXCEPT ![o].status = "FILLED"]
               ELSE IF r = "raised"
                 THEN [orders EXCEPT ![o].status = "REJECTED"]
               ELSE orders
  /\ UNCHANGED <<active_orders, omsVars, callVars>>

MonitorStatus(o, m, r) ==
  /\ m \in Mons(o) /\ m.pc = "query" /\ ~m.cancelled
  /\ monitors' =
       IF MonitorEnds(m, r) THEN Finish(monitors, o, m)
       ELSE Move(monitors, o, m,
                 [m EXCEPT !.pc = "sleep", !.retry_count = m.retry_count + 1,
                           !.seen = ""])
  /\ orders' = IF r = "execution"
                 THEN [orders EXCEPT ![o].status = "FILLED"] ELSE orders
  /\ UNCHANGED <<active_orders, omsVars, callVars>>

\* lines 116-117 with a write before the break: the cancelled task marks its
\* order CANCELLED
MonitorCancelledMarksOrder(o, m) ==
  /\ m \in Mons(o) /\ m.cancelled
  /\ monitors' = Finish(monitors, o, m)
  /\ orders' = [orders EXCEPT ![o].status = "CANCELLED"]
  /\ UNCHANGED <<active_orders, omsVars, callVars>>

\* line 116: the cancelled task is resumed with CancelledError and breaks
MonitorCancelled(o, m) ==
  /\ m \in Mons(o) /\ m.cancelled
  /\ monitors' = Finish(monitors, o, m)
  /\ UNCHANGED <<orders, active_orders, omsVars, callVars>>

\* ------------------------- direct calls of the lifecycle manager's methods
AddOrder(o) ==
  /\ ShouldMonitor(orders[o]) => LiveMonitors(monitors) < MaxMonitors
  /\ active_orders' = add_order_active(active_orders, o)
  /\ monitors' = add_order_monitors(monitors, orders, o)
  /\ UNCHANGED <<orders, omsVars, callVars>>

RemoveOrder(o) ==
  /\ active_orders' = IF o \in active_orders
                        THEN remove_order_active(active_orders, o)
                        ELSE active_orders
  /\ UNCHANGED <<orders, monitors, omsVars, callVars>>

UpdateOrderStatus(o, new_status, execution_id) ==
  /\ orders' = IF o \in active_orders
                 THEN [orders EXCEPT ![o] = update_order(@, new_status, execution_id)]
                 ELSE orders
  /\ UNCHANGED <<active_orders, monitors, omsVars, callVars>>

\* ------------------------------------------------- OrderManagementSystem
\* An ingestion task (_process_orders): pc is the await it is suspended at,
\*   next    the async for, waiting for the source's next order
\*   submit  broker.submit_order(order)
\*   ack     order_source.acknowledge_order(order_id)
\*   done    the task has ended (or the slot never held one)
\* ended is how _process_orders left its loop: "exhausted" (line 73 ran out
\* of orders), "cancelled" (line 110) or "raised" (line 112).
NoTask == [pc |-> "done", order |-> 0, cancelled |-> FALSE, ended |-> "none"]
FreeSlots == {t \in IngestIds : ingest[t].pc = "done"}
NewSlot == CHOOSE t \in FreeSlots : \A u \in FreeSlots : t <= u

IdleStop == [pc |-> "idle", task |-> 0]

\* start() without its line 33: every call starts the system again
start_never_returns_at_once == FALSE

\* start() line 33 and stop() line 50: the calls that return at once
start_returns_at_once == _running
stop_returns_at_once == ~_running

\* start(), lines 33-39, up to the await of order_source.connect()
Start ==
  /\ start_call = "idle"
  /\ IF start_returns_at_once
       THEN UNCHANGED <<_running, start_call>>
       ELSE /\ _running' = TRUE
            /\ start_call' = "connect_source"
  /\ UNCHANGED <<orders, active_orders, monitors, _order_processor_task, ingest,
                 acked, stop_call, callVars>>

\* line 39 returns or raises; on success start() goes on to broker.connect()
StartSourceConnect(r) ==
  /\ start_call = "connect_source"
  /\ start_call' = IF r = "ok" THEN "connect_broker" ELSE "idle"
  /\ UNCHANGED <<orders, active_orders, monitors, _running, _order_processor_task,
                 ingest, acked, stop_call, callVars>>

\* line 40 returns or raises; on success lines 43-46 run without suspending:
\* start_monitoring() has no await inside, create_task only schedules
StartBrokerConnect(r) ==
  /\ start_call = "connect_broker"
  /\ start_call' = "idle"
  /\ IF r = "ok"
       THEN /\ FreeSlots # {}
            /\ LiveMonitors(start_monitoring(monitors, orders, active_orders))
                 <= MaxMonitors
            /\ monitors' = start_monitoring(monitors, orders, active_orders)
            /\ ingest' = [ingest EXCEPT
                            ![NewSlot] = [pc |-> "next", order |-> 0,
                                          cancelled |-> FALSE,
                                          ended |-> "none"]]
            /\ _order_processor_task' = NewSlot
       ELSE UNCHANGED <<monitors, ingest, _order_processor_task>>
  /\ UNCHANGED <<orders, active_orders, _running, acked,
                 stop_call, callVars>>

\* stop_monitoring() up to its gather (lines 59-61); with no task in the set
\* the gather does not suspend and clear() empties an empty set
StopMonitoringBegins ==
  /\ monitors' = cancel_monitoring_tasks(monitors)
  /\ stop_call' = [pc |-> IF AnyTracked(monitors) THEN "gather"
                          ELSE "disconnect_source",
                   task |-> 0]

\* stop(), lines 50-59 (a live ingestion task) or 50-64 (none)
Stop ==
  /\ stop_call.pc = "idle"
  /\ IF stop_returns_at_once
       THEN /\ UNCHANGED <<_running, stop_call, ingest, monitors>>
       ELSE /\ _running' = FALSE
            /\ IF _order_processor_task # 0
                 THEN /\ ingest' = [ingest EXCEPT
                                      ![_order_processor_task].cancelled = TRUE]
                      /\ stop_call' = [pc |-> "await_task",
                                       task |-> _order_processor_task]
                      /\ UNCHANGED monitors
                 ELSE UNCHANGED ingest /\ StopMonitoringBegins
  /\ UNCHANGED <<orders, active_orders, _order_processor_task, acked, start_call, callVars>>

\* line 59 returns: the awaited ingestion task has ended
StopTaskAwaited ==
  /\ stop_call.pc = "await_task" /\ stop_call.task = 0
  /\ StopMonitoringBegins
  /\ UNCHANGED <<orders, active_orders, _running, _order_processor_task, ingest,
                 acked, start_call, callVars>>

\* lines 61-62: the gather returns once every cancelled task has ended, then
\* _monitoring_tasks.clear()
StopGathered ==
  /\ stop_call.pc = "gather" /\ ~AnyCancelled(monitors)
  /\ monitors' = clear_monitoring_tasks(monitors)
  /\ stop_call' = [pc |-> "disconnect_source", task |-> 0]
  /\ UNCHANGED <<orders, active_orders, _running, _order_processor_task, ingest,
                 acked, start_call, callVars>>

\* line 67 returns or raises
StopSourceDisconnect(r) ==
  /\ stop_call.pc = "disconnect_source"
  /\ stop_call' = IF r = "ok" THEN [pc |-> "disconnect_broker", task |-> 0]
                  ELSE IdleStop
  /\ UNCHANGED <<orders, active_orders, monitors, _running, _order_processor_task,
                 ingest, acked, start_call, callVars>>

\* line 68 returns or raises; stop() returns
StopBrokerDisconnect(r) ==
  /\ stop_call.pc = "disconnect_broker"
  /\ stop_call' = IdleStop
  /\ UNCHANGED <<orders, active_orders, monitors, _running, _order_processor_task,
                 ingest, acked, start_call, callVars>>

\* ------------------------------------------------------- _process_orders
\* The task ends: a finished task held in _order_processor_task behaves in
\* stop() as None does (cancel() is a no-op, the await returns at once), and
\* a stop() awaiting the task is resumed.
EndTask(t, why) ==
  /\ ingest' = [ingest EXCEPT ![t] = [NoTask EXCEPT !.ended = why]]
  /\ _order_processor_task' =
       IF _order_processor_task = t THEN 0 ELSE _order_processor_task
  /\ stop_call' = IF stop_call.pc = "await_task" /\ stop_call.task = t
                    THEN [stop_call EXCEPT !.task = 0] ELSE stop_call

\* Lines 81-88. The continue of line 85 belongs to the for loop of line 83
\* over the errors, so after that loop control reaches the submit of line 88
\* whatever the validation result was.
after_validation(v) == "submit"

\* the source yields an order it holds unacknowledged; lines 76-88
IngestDeliver(t, o) ==
  /\ ingest[t].pc = "next" /\ ~ingest[t].cancelled
  /\ o \notin acked
  /\ LET v == OmsValidate(o)
     IN  IF v.raised
           THEN UNCHANGED ingest
           ELSE /\ ingest' = [ingest EXCEPT ![t].pc = after_validation(v),
                                            ![t].order =
                                              IF after_validation(v) = "next"
                                                THEN 0 ELSE o]
  /\ UNCHANGED <<orders, active_orders, monitors, _running, _order_processor_task,
                 acked, start_call, stop_call,
                 callVars>>

\* lines 94-103 with add_order moved out of the success branch: a rejected
\* order is registered as well
IngestSubmittedRegistersRejected(t, r) ==
  /\ ingest[t].pc = "submit" /\ ~ingest[t].cancelled
  /\ LET o == ingest[t].order
     IN  /\ ShouldMonitor(orders[o]) => LiveMonitors(monitors) < MaxMonitors
         /\ active_orders' = add_order_active(active_orders, o)
         /\ monitors' = add_order_monitors(monitors, orders, o)
         /\ ingest' = IF r = "success"
                        THEN [ingest EXCEPT ![t].pc = "ack"]
                        ELSE [ingest EXCEPT ![t].pc = "next", ![t].order = 0]
  /\ UNCHANGED <<orders, _running, _order_processor_task, acked, start_call, stop_call, callVars>>

\* lines 94-103 with the acknowledgement moved out of the success branch: a
\* rejected order is acknowledged, unregistered
IngestSubmittedAcknowledgesRejected(t, r) ==
  /\ ingest[t].pc = "submit" /\ ~ingest[t].cancelled
  /\ LET o == ingest[t].order
     IN  /\ IF r = "success"
              THEN /\ ShouldMonitor(orders[o]) => LiveMonitors(monitors) < MaxMonitors
                   /\ active_orders' = add_order_active(active_orders, o)
                   /\ monitors' = add_order_monitors(monitors, orders, o)
              ELSE UNCHANGED <<active_orders, monitors>>
         /\ ingest' = [ingest EXCEPT ![t].pc = "ack"]
  /\ UNCHANGED <<orders, _running, _order_processor_task, acked, start_call, stop_call, callVars>>

\* lines 88-103: the answer to broker.submit_order
IngestSubmitted(t, r) ==
  /\ ingest[t].pc = "submit" /\ ~ingest[t].cancelled
  /\ LET o == ingest[t].order
     IN  /\ IF r = "success"
              THEN /\ ShouldMonitor(orders[o]) => LiveMonitors(monitors) < MaxMonitors
                   /\ active_orders' = add_order_active(active_orders, o)
                   /\ monitors' = add_order_monitors(monitors, orders, o)
                   /\ ingest' = [ingest EXCEPT ![t].pc = "ack"]
              ELSE /\ UNCHANGED <<active_orders, monitors>>
                   /\ ingest' = [ingest EXCEPT ![t].pc = "next", ![t].order = 0]
  /\ UNCHANGED <<orders, _running, _order_processor_task, acked, start_call, stop_call, callVars>>

\* line 99: the answer to order_source.acknowledge_order (True, False or an
\* exception, which line 105 catches)
IngestAcknowledged(t, r) ==
  /\ ingest[t].pc = "ack" /\ ~ingest[t].cancelled
  /\ acked' = IF r = "ok" THEN acked \cup {ingest[t].order} ELSE acked
  /\ ingest' = [ingest EXCEPT ![t].pc = "next", ![t].order = 0]
  /\ UNCHANGED <<orders, active_orders, monitors, _running, _order_processor_task, start_call, stop_call, callVars>>

\* line 73 ends the loop: the sequence is exhausted, or producing the next
\* element raised (caught at line 112)
IngestSourceEnds(t, r) ==
  /\ ingest[t].pc = "next" /\ ~ingest[t].cancelled
  /\ EndTask(t, r)
  /\ UNCHANGED <<orders, active_orders, monitors, _running, acked, start_call, callVars>>

\* line 110: the cancelled task is resumed with CancelledError
IngestCancelled(t) ==
  /\ ingest[t].pc # "done" /\ ingest[t].cancelled
  /\ EndTask(t, "cancelled")
  /\ UNCHANGED <<orders, active_orders, monitors, _running, acked, start_call, callVars>>

\* ------------------------------------- submit_order, cancel_order, replace
\* A call frame: pc is "broker" while the call awaits the Execution Client;
\* once it has returned, order and result are those of the
\* OrderExecutionResult it returned ("raised": it raised instead).
IdleCall == [pc |-> "idle", order |-> 0, result |-> "none"]
IdleReplace ==
  [pc |-> "idle", order |-> 0, result |-> "none",
   new_price |-> None, new_quantity |-> None]
Returned(o, r) == [pc |-> "idle", order |-> o, result |-> r]
Awaiting(o) == [pc |-> "broker", order |-> o, result |-> "none"]

\* lines 120-137 without the return of lines 125-130: an invalid order is
\* submitted as well
SubmitOrderIgnoresValidation(o) ==
  /\ submit_call.pc = "idle"
  /\ LET v == OmsValidate(o)
     IN  submit_call' = IF v.raised THEN Returned(o, "raised") ELSE Awaiting(o)
  /\ UNCHANGED <<orders, active_orders, monitors, omsVars, cancel_call, replace_call, validation>>

\* lines 120-137, up to the await of broker.submit_order
SubmitOrder(o) ==
  /\ submit_call.pc = "idle"
  /\ LET v == OmsValidate(o)
     IN  submit_call' = IF v.raised THEN Returned(o, "raised")
                        ELSE IF ~v.is_valid THEN Returned(o, "invalid")
                        ELSE Awaiting(o)
  /\ UNCHANGED <<orders, active_orders, monitors, omsVars, cancel_call, replace_call, validation>>

\* lines 139-143
SubmitOrderReturns(r) ==
  /\ submit_call.pc = "broker"
  /\ LET o == submit_call.order
     IN  /\ IF r = "success"
              THEN /\ ShouldMonitor(orders[o]) => LiveMonitors(monitors) < MaxMonitors
                   /\ active_orders' = add_order_active(active_orders, o)
                   /\ monitors' = add_order_monitors(monitors, orders, o)
              ELSE UNCHANGED <<active_orders, monitors>>
         /\ submit_call' = Returned(o, r)
  /\ UNCHANGED <<orders, omsVars, cancel_call, replace_call, validation>>

\* lines 148-154 without the not-found return: every identifier is forwarded
CancelOrderForwardsUnknown(o) ==
  /\ cancel_call.pc = "idle"
  /\ cancel_call' = Awaiting(o)
  /\ UNCHANGED <<orders, active_orders, monitors, omsVars, submit_call, replace_call, validation>>

\* lines 148-157
CancelOrder(o) ==
  /\ cancel_call.pc = "idle"
  /\ cancel_call' = IF o \notin active_orders THEN Returned(o, "not_found")
                    ELSE Awaiting(o)
  /\ UNCHANGED <<orders, active_orders, monitors, omsVars, submit_call, replace_call, validation>>

\* lines 159-163 without the remove_order of line 161
CancelOrderReturnsKeepsOrder(r) ==
  /\ cancel_call.pc = "broker"
  /\ cancel_call' = Returned(cancel_call.order, r)
  /\ UNCHANGED <<orders, active_orders, monitors, omsVars, submit_call, replace_call, validation>>

\* lines 159-163
CancelOrderReturns(r) ==
  /\ cancel_call.pc = "broker"
  /\ LET o == cancel_call.order
     IN  /\ active_orders' =
              IF r = "success" /\ o \in active_orders
                THEN remove_order_active(active_orders, o) ELSE active_orders
         /\ cancel_call' = Returned(o, r)
  /\ UNCHANGED <<orders, monitors, omsVars, submit_call, replace_call, validation>>

\* lines 173-187
ReplaceOrder(o, new_price, new_quantity) ==
  /\ replace_call.pc = "idle"
  /\ replace_call' =
       [pc |-> IF o \notin active_orders THEN "idle" ELSE "broker",
        order |-> o,
        result |-> IF o \notin active_orders THEN "not_found" ELSE "none",
        new_price |-> new_price, new_quantity |-> new_quantity]
  /\ UNCHANGED <<orders, active_orders, monitors, omsVars, submit_call, cancel_call, validation>>

\* lines 189-194 without the two `is not None` tests: both fields are assigned
replace_fields_unconditionally(order, new_price, new_quantity) ==
  [order EXCEPT !.price = new_price,
                !.quantity = IF IsNone(new_quantity) THEN 0 ELSE Val(new_quantity)]

\* lines 189-194: the order object fetched at line 173 is updated in place
replace_fields(order, new_price, new_quantity) ==
  [order EXCEPT !.price = IF IsNone(new_price) THEN @ ELSE new_price,
                !.quantity = IF IsNone(new_quantity) THEN @ ELSE Val(new_quantity)]

ReplaceOrderReturns(r) ==
  /\ replace_call.pc = "broker"
  /\ LET o == replace_call.order
     IN  orders' =
           IF r = "success"
             THEN [orders EXCEPT ![o] = replace_fields(@, replace_call.new_price,
                                                       replace_call.new_quantity)]
             ELSE orders
  /\ replace_call' = [replace_call EXCEPT !.pc = "idle", !.result = r]
  /\ UNCHANGED <<active_orders, monitors, omsVars, submit_call, cancel_call, validation>>

\* ------------------------------------- a ValidationEngine used on its own
\* ValidationEngine() (line 75), before any validate_order call
NewEngine ==
  [rules |-> <<>>, called |-> FALSE, order |-> InitialOrder(1),
   context |-> OmsContext, result |-> ValidationResult(<<>>, <<>>)]

\* add_rule, lines 77-79
AddRule(rule) ==
  /\ Len(validation.rules) < MaxRules
  /\ validation' = [validation EXCEPT !.rules = Append(@, rule)]
  /\ UNCHANGED <<orders, active_orders, monitors, omsVars,
                 submit_call, cancel_call, replace_call>>

\* validate_order, lines 81-97; `context or {}` makes no difference to the
\* rules' context.get calls
ValidateOrder(order, context) ==
  /\ validation' = [validation EXCEPT
                      !.called = TRUE, !.order = order, !.context = context,
                      !.result = validate_order(validation.rules, order, context)]
  /\ UNCHANGED <<orders, active_orders, monitors, omsVars,
                 submit_call, cancel_call, replace_call>>

\* ------------------------------------------------------------ the system
\* what the callers and the collaborators answer
BrokerAnswers == {"success", "failed", "raised"}
StatusAnswers == {"failed", "execution", "success", "raised"}
SourceAnswers == {"ok", "failed", "raised"}
ConnectAnswers == {"ok", "raised"}
NewPrices == {None, Some(110)}
NewQuantities == {None, Some(20)}
ExecutionIds == {None, Some("E1")}

Init ==
  /\ orders = [o \in OrderIds |-> InitialOrder(o)]
  /\ active_orders = {}
  /\ monitors = [o \in OrderIds |-> EmptyBag]
  /\ _running = FALSE
  /\ _order_processor_task = 0
  /\ ingest = [t \in IngestIds |-> NoTask]
  /\ acked = {}
  /\ start_call = "idle"
  /\ stop_call = IdleStop
  /\ submit_call = IdleCall
  /\ cancel_call = IdleCall
  /\ replace_call = IdleReplace
  /\ validation = NewEngine

\* start(), stop() and the ingestion tasks
OmsNext ==
  \/ Start
  \/ \E r \in ConnectAnswers : StartSourceConnect(r)
  \/ \E r \in ConnectAnswers : StartBrokerConnect(r)
  \/ Stop
  \/ StopTaskAwaited
  \/ StopGathered
  \/ \E r \in ConnectAnswers : StopSourceDisconnect(r)
  \/ \E r \in ConnectAnswers : StopBrokerDisconnect(r)
  \/ \E t \in IngestIds, o \in OrderIds : IngestDeliver(t, o)
  \/ \E t \in IngestIds, r \in BrokerAnswers : IngestSubmitted(t, r)
  \/ \E t \in IngestIds, r \in SourceAnswers : IngestAcknowledged(t, r)
  \/ \E t \in IngestIds, r \in {"exhausted", "raised"} : IngestSourceEnds(t, r)
  \/ \E t \in IngestIds : IngestCancelled(t)

\* the imperative submit_order
SubmitNext ==
  \/ \E o \in OrderIds : SubmitOrder(o)
  \/ \E r \in BrokerAnswers : SubmitOrderReturns(r)

\* cancel_order and replace_order
CancelNext ==
  \/ \E o \in OrderIds : CancelOrder(o)
  \/ \E r \in BrokerAnswers : CancelOrderReturns(r)

ReplaceNext ==
  \/ \E o \in OrderIds, p \in NewPrices, q \in NewQuantities : ReplaceOrder(o, p, q)
  \/ \E r \in BrokerAnswers : ReplaceOrderReturns(r)

\* the lifecycle manager's methods, called directly
ManagerNext ==
  \/ \E o \in OrderIds : AddOrder(o)
  \/ \E o \in OrderIds : RemoveOrder(o)

UpdateNext(statuses, execution_ids) ==
  \E o \in OrderIds, s \in statuses, e \in execution_ids : UpdateOrderStatus(o, s, e)

\* the monitoring tasks: polling, and ending when cancelled
MonitorPolls ==
  \/ \E o \in OrderIds : \E m \in Mons(o) : MonitorWake(o, m)
  \/ \E o \in OrderIds : \E m \in Mons(o) : \E r \in StatusAnswers :
       MonitorStatus(o, m, r)
MonitorStops ==
  \E o \in OrderIds : \E m \in Mons(o) : MonitorCancelled(o, m)

\* The rules, orders and contexts given to the engine used on its own.
RuleInputs ==
  { EngineRules[1], EngineRules[2],
    [kind |-> "custom", is_valid |-> TRUE, errors |-> <<>>,
     warnings |-> <<"w1">>],
    [kind |-> "custom", is_valid |-> FALSE, errors |-> <<"e1">>,
     warnings |-> <<"w2">>],
    [kind |-> "custom", is_valid |-> FALSE, errors |-> <<>>,
     warnings |-> <<>>] }
LimitPrices == {None, Some(0), Some(94), Some(95), Some(105), Some(106), Some(200)}
OrderInputs ==
  { InitialOrder(1), InitialOrder(2),
    [InitialOrder(1) EXCEPT !.price = Some(200)] }
  \cup { [InitialOrder(2) EXCEPT !.price = p] : p \in LimitPrices }
ContextInputs ==
  { OmsContext,
    [k \in {"market_price"} |-> Some(100)],
    [k \in {"market_price"} |-> Some(0)],
    [k \in {"market_price"} |-> None],
    [k \in {"current_position"} |-> Some(1)],
    [k \in {"market_price", "current_position"} |->
       IF k = "market_price" THEN Some(100) ELSE Some(500)] }

ValidationNext ==
  \/ \E rule \in RuleInputs : AddRule(rule)
  \/ \E order \in OrderInputs, context \in ContextInputs : ValidateOrder(order, context)

\* The whole system.
Next ==
  \/ OmsNext
  \/ SubmitNext
  \/ CancelNext
  \/ ReplaceNext
  \/ ManagerNext
  \/ UpdateNext(OrderStatus, ExecutionIds)
  \/ MonitorPolls
  \/ MonitorStops
  \/ ValidationNext

SpecAll == Init /\ [][Next]_vars

\* The ValidationEngine used on its own.
SpecValidation == Init /\ [][ValidationNext]_vars

\* The statuses the specifications below let a collaborator report through
\* update_order_status.
StatusInputs == {"SUBMITTED", "PARTIALLY_FILLED", "FILLED", "CANCELLED"}

\* The orchestrator: start(), stop(), the ingestion task and submit_order,
\* with a collaborator that marks tracked orders SUBMITTED and with the
\* monitoring tasks spawned and cancelled (their polling left out).
OrchestratorNext ==
  \/ OmsNext
  \/ SubmitNext
  \/ UpdateNext({"SUBMITTED"}, {None})
  \/ MonitorStops

Spec == Init /\ [][OrchestratorNext]_vars

\* start(), stop() and the ingestion task, without the imperative calls.
StartStopNext ==
  \/ OmsNext
  \/ UpdateNext({"SUBMITTED"}, {None})
  \/ MonitorStops

SpecStartStop == Init /\ [][StartStopNext]_vars

\* start(), stop() and the ingestion task with the monitoring tasks polling,
\* so that stop() cancels monitors in their sleep and in their status query.
ShutdownNext ==
  \/ OmsNext
  \/ UpdateNext({"SUBMITTED"}, {None})
  \/ MonitorPolls
  \/ MonitorStops

SpecShutdown == Init /\ [][ShutdownNext]_vars

\* The lifecycle manager alone: its methods called directly, and the
\* monitoring tasks polling.
LifecycleNext ==
  \/ ManagerNext
  \/ UpdateNext(StatusInputs, ExecutionIds)
  \/ MonitorPolls

SpecLifecycle == Init /\ [][LifecycleNext]_vars

\* The imperative commands: submit_order, cancel_order and replace_order
\* called on a system whose tracked orders a collaborator marks SUBMITTED and
\* whose monitors poll.
CommandsNext ==
  \/ SubmitNext
  \/ CancelNext
  \/ ReplaceNext
  \/ UpdateNext({"SUBMITTED"}, {None})
  \/ MonitorPolls

SpecCommands == Init /\ [][CommandsNext]_vars

\* ------------------------------------------------------------ properties

\* C1: in the ingestion loop an order whose validation result is invalid is
\* never submitted to the Execution Client (and so neither registered nor
\* acknowledged): an ingestion task awaiting the submit or the acknowledgement
\* of an order holds an order that validated.
C1_InvalidNeverSubmitted ==
  \A t \in IngestIds :
    ingest[t].pc \in {"submit", "ack"} => OmsValidate(ingest[t].order).is_valid

\* C2: when the ingestion loop or submit_order gets a successful result from
\* the Execution Client's submit, add_order leaves a live monitoring task for
\* the order.
C2_RegisteredIsMonitored ==
  [][ /\ \A t \in IngestIds :
           (ingest[t].pc = "submit" /\ ingest'[t].pc = "ack")
             => monitors'[ingest[t].order] # EmptyBag
      /\ (submit_call.pc = "broker" /\ submit_call'.result = "success")
           => monitors'[submit_call.order] # EmptyBag ]_vars

\* C3: in every reachable state every order has at most one live monitoring
\* task.
C3_AtMostOneMonitor ==
  \A o \in OrderIds : BagCardinality(monitors[o]) <= 1

\* The order of the statuses the specification gives: PENDING < VALIDATED <
\* SUBMITTED < PARTIALLY_FILLED < the terminal statuses.
StatusRank(s) ==
  CASE s = "PENDING" -> 0
    [] s = "VALIDATED" -> 1
    [] s = "SUBMITTED" -> 2
    [] s = "PARTIALLY_FILLED" -> 3
    [] OTHER -> 4

\* C4: every change of an order's status is a forward transition.
C4_ForwardTransitions ==
  [][ \A o \in OrderIds :
        orders'[o].status # orders[o].status
          => StatusRank(orders[o].status) < StatusRank(orders'[o].status) ]_vars

\* C5: once an order's status is terminal it never changes again.
C5_TerminalIsFinal ==
  [][ \A o \in OrderIds :
        orders[o].status \in TerminalStatus
          => orders'[o].status = orders[o].status ]_vars

\* C6: the operation that sets a tracked order's status to a terminal status
\* leaves the order out of the active-order set.
C6_TerminalLeavesActiveSet ==
  [][ \A o \in OrderIds :
        (orders'[o].status # orders[o].status
           /\ orders'[o].status \in TerminalStatus)
          => o \notin active_orders' ]_vars

\* C7: when stop() returns no monitoring task is alive, whatever ran
\* concurrently with it.
C7_StoppedHasNoMonitors ==
  [][ (stop_call.pc = "disconnect_broker" /\ stop_call'.pc = "idle")
        => \A o \in OrderIds : monitors'[o] = EmptyBag ]_vars

\* C8: an ingestion task whose submission the Execution Client accepted (it
\* has registered the order and awaits the acknowledgement) does not end
\* without the order acknowledged at the source, also when stop() cancels it.
C8_AcceptedIsAcknowledged ==
  [][ \A t \in IngestIds :
        (ingest[t].pc = "ack" /\ ingest'[t].pc = "done")
          => ingest[t].order \in acked' ]_vars

\* C9: when connecting the Order Source fails in start(), start() ends with
\* the system STOPPED, so that a later start() tries again.
C9_FailedStartIsStopped ==
  [][ (start_call = "connect_source" /\ start_call' = "idle") => ~_running' ]_vars

\* C10: start() on a RUNNING system and stop() on a STOPPED system begin
\* nothing: no connect, no ingestion task, no cancellation, no disconnect.
C10_StartStopIdempotent ==
  [][ /\ (_running /\ start_call = "idle") => start_call' = "idle"
      /\ (~_running /\ stop_call.pc = "idle") => stop_call'.pc = "idle" ]_vars

\* C10 witness: the system is RUNNING with its ingestion task, and neither
\* start() nor stop() is in flight.
C10_Witness ==
  /\ _running /\ start_call = "idle" /\ stop_call.pc = "idle"
  /\ _order_processor_task # 0
  /\ ingest[_order_processor_task].pc = "next"

\* C11: a failed status query counts as a retry: below max_retries failures
\* the monitor goes back to polling with its counter one higher; at the
\* max_retries-th failure the monitor ends; either way the order stays in the
\* active-order set with its status unchanged, and no live monitor ever holds
\* a counter of max_retries.
C11_RetriesThenGivesUp ==
  [][ \A o \in OrderIds : \A m \in Mons(o) :
        MonitorStatus(o, m, "failed") =>
          /\ orders' = orders
          /\ active_orders' = active_orders
          /\ \A n \in BagToSet(monitors'[o]) : n.retry_count < max_retries
          /\ IF m.retry_count + 1 < max_retries
               THEN /\ BagCardinality(monitors'[o]) = BagCardinality(monitors[o])
                    /\ BagIn([m EXCEPT !.pc = "sleep",
                                       !.retry_count = m.retry_count + 1,
                                       !.seen = ""],
                             monitors'[o])
               ELSE BagCardinality(monitors'[o]) = BagCardinality(monitors[o]) - 1
    ]_vars

\* C11 witness: a monitor that has seen max_retries - 1 failed queries is
\* waiting for the answer to the next one, its order active.
C11_Witness ==
  \E o \in active_orders : \E m \in Mons(o) :
    m.pc = "query" /\ m.retry_count = max_retries - 1

\* C12: when the answer to a monitor's status query carries an execution
\* identifier, that same step sets the order's status to FILLED and ends the
\* monitor, so that it sends no further query.
C12_FillEndsMonitor ==
  [][ \A o \in OrderIds : \A m \in Mons(o) :
        MonitorStatus(o, m, "execution") =>
          /\ orders'[o].status = "FILLED"
          /\ CopiesIn(m, monitors'[o]) = CopiesIn(m, monitors[o]) - 1
          /\ BagCardinality(monitors'[o]) = BagCardinality(monitors[o]) - 1
    ]_vars

\* C12 witness: a monitor is waiting for the answer to its status query for an
\* active, partially filled order.
C12_Witness ==
  \E o \in active_orders : \E m \in Mons(o) :
    m.pc = "query" /\ ~m.cancelled /\ orders[o].status = "PARTIALLY_FILLED"

\* C13: in the ingestion loop a failed result of the Execution Client's
\* submit leaves the active-order set, the monitors and the acknowledged
\* orders as they were, and the task goes on to the source's next order; no
\* step that takes a task from the submit back to the source changes them.
C13_RejectedIsNotRegistered ==
  [][ \A t \in IngestIds :
        /\ IngestSubmitted(t, "failed") =>
             /\ active_orders' = active_orders
             /\ monitors' = monitors
             /\ acked' = acked
             /\ ingest'[t].pc = "next"
        /\ (ingest[t].pc = "submit" /\ ingest'[t].pc = "next") =>
             /\ active_orders' = active_orders
             /\ acked' = acked
    ]_vars

\* C13 witness: an ingestion task awaits the submit of an order that is
\* neither registered nor acknowledged.
C13_Witness ==
  \E t \in IngestIds :
    /\ ingest[t].pc = "submit" /\ ~ingest[t].cancelled
    /\ ingest[t].order \notin active_orders
    /\ ingest[t].order \notin acked

\* C14: the ingestion loop calls acknowledge_order for an order only in the
\* step in which the submit of that very order succeeded and add_order put it
\* in the active-order set; an order becomes acknowledged only through one
\* such call, which the task then leaves for the source's next order (one call
\* per delivery).
C14_AcknowledgedAfterRegistered ==
  [][ /\ \A t \in IngestIds :
           (ingest'[t].pc = "ack" /\ ingest[t].pc # "ack") =>
             /\ ingest[t].pc = "submit"
             /\ ingest'[t].order = ingest[t].order
             /\ ingest[t].order \in active_orders'
      /\ acked' # acked =>
           \E t \in IngestIds :
             /\ ingest[t].pc = "ack" /\ ingest'[t].pc = "next"
             /\ acked' = acked \cup {ingest[t].order}
    ]_vars

\* C14 witness: an order has been acknowledged and is registered.
C14_Witness ==
  \E o \in acked : o \in active_orders

\* C15: an ingestion task ends only because it was cancelled or because the
\* source's sequence was exhausted; no error ends it.
C15_LoopEndsOnlyOnCancelOrExhaustion ==
  [][ \A t \in IngestIds :
        (ingest[t].pc # "done" /\ ingest'[t].pc = "done") =>
          ingest'[t].ended \in {"cancelled", "exhausted"} ]_vars

C17_CancelRemovesOnSuccessOnly ==
  [][ /\ (cancel_call.pc = "idle" /\ cancel_call' # cancel_call
            /\ cancel_call'.order \in active_orders) =>
           cancel_call'.pc = "broker"
      /\ (cancel_call.pc = "broker" /\ cancel_call' # cancel_call) =>
           /\ cancel_call'.pc = "idle"
           /\ cancel_call'.order = cancel_call.order
           /\ IF cancel_call'.result = "success"
                THEN cancel_call.order \notin active_orders'
                ELSE /\ active_orders' = active_orders
                     /\ orders' = orders
    ]_vars

\* C17 witness: cancel_order has returned success for an order, which is out
\* of the active-order set.
C17_Witness ==
  /\ cancel_call.pc = "idle" /\ cancel_call.result = "success"
  /\ cancel_call.order \notin active_orders

C19_SubmitOrderValidatesFirst ==
  [][ /\ (submit_call.pc = "idle" /\ submit_call' # submit_call) =>
           LET v == OmsValidate(submit_call'.order)
           IN  /\ active_orders' = active_orders /\ monitors' = monitors
               /\ (~v.raised /\ ~v.is_valid) =>
                    /\ submit_call'.pc = "idle"
                    /\ submit_call'.result = "invalid"
                    /\ v.errors # <<>>
               /\ v.is_valid => submit_call'.pc = "broker"
      /\ (submit_call.pc = "broker" /\ submit_call' # submit_call) =>
           IF submit_call'.result = "success"
             THEN active_orders' = active_orders \cup {submit_call.order}
             ELSE active_orders' = active_orders /\ monitors' = monitors
    ]_vars

\* C19 witness: submit_order has returned its validation failure for an order
\* that is not tracked, after another submit_order put an order in the
\* active-order set.
C19_Witness ==
  /\ submit_call.pc = "idle" /\ submit_call.result = "invalid"
  /\ submit_call.order \notin active_orders
  /\ active_orders # {}

\* The errors, and the warnings, of the first n rules, each rule asked in turn.
RECURSIVE ErrorsOfFirst(_, _, _, _)
ErrorsOfFirst(n, rules, order, context) ==
  IF n = 0 THEN <<>>
  ELSE ErrorsOfFirst(n - 1, rules, order, context)
         \o RuleValidate(rules[n], order, context).errors
RECURSIVE WarningsOfFirst(_, _, _, _)
WarningsOfFirst(n, rules, order, context) ==
  IF n = 0 THEN <<>>
  ELSE WarningsOfFirst(n - 1, rules, order, context)
         \o RuleValidate(rules[n], order, context).warnings

\* C20: what a validate_order call returns holds the errors of all the registered
\* rules in registration order, their warnings likewise, none left out after
\* a rule that failed, and is_valid exactly when there is no error, whatever
\* the warnings and whatever is_valid the rules themselves answered (a call
\* that raised returned nothing).
C20_ValidateOrderAggregates ==
  [][ (validation' # validation /\ validation'.rules = validation.rules) =>
        LET n == Len(validation.rules)
            r == validation'.result
        IN  /\ validation'.called
            /\ r.raised \/ r.errors = ErrorsOfFirst(n, validation.rules, validation'.order,
                                        validation'.context)
            /\ r.raised \/ r.warnings = WarningsOfFirst(n, validation.rules,
                                                        validation'.order,
                                                        validation'.context)
            /\ r.raised \/ (r.is_valid <=> (r.errors = <<>>))
    ]_vars

\* C20 witness: two rules, the first failing with an error and the second
\* contributing a warning, have been run on an order.
C20_Witness ==
  /\ validation.called
  /\ Len(validation.rules) = 2
  /\ RuleValidate(validation.rules[1], validation.order, validation.context).errors # <<>>
  /\ RuleValidate(validation.rules[2], validation.order, validation.context).warnings # <<>>
  /\ validation.result.warnings # <<>>
  /\ ~validation.result.is_valid

\* C21: a validate_order call always returns a ValidationResult: no call
\* ends with an exception, whatever the context holds or lacks.
C21_ValidateOrderNeverRaises ==
  validation.called => ~validation.result.raised

\* A validate_order call that an engine holding exactly the rules `rules` has
\* just answered.
AnsweredBy(rules) ==
  /\ validation' # validation
  /\ validation'.rules = validation.rules
  /\ validation.rules = rules

\* C22: the price-deviation rule, asked about a limit order that has a price
\* with a context that holds a market price m > 0, answers with the deviation
\* error exactly when |price - m| / m > max_price_deviation (a deviation equal
\* to the bound passes); a limit order with no price, or a context with no
\* market price, gets an error.
C22_DeviationBound ==
  [][ AnsweredBy(<<EngineRules[1]>>) =>
        LET order == validation'.order
            m == Get(validation'.context, "market_price")
            r == validation'.result
        IN  order.order_type = "LIMIT" =>
              IF order.price = None \/ m = None
                THEN ~r.is_valid /\ r.errors # <<>>
                ELSE Val(m) > 0 =>
                       ((r.errors = <<"Price deviation exceeds maximum">>)
                          <=> (Abs(Val(order.price) - Val(m))
                                 * Config.max_price_deviation_den
                               > Config.max_price_deviation_num * Val(m)))
    ]_vars

\* C23: the price-deviation rule answers valid, with no error, for every
\* MARKET order, whatever its price and whatever market price the context
\* holds or lacks.
C23_MarketOrdersPass ==
  [][ AnsweredBy(<<EngineRules[1]>>) =>
        (validation'.order.order_type = "MARKET" =>
           /\ ~validation'.result.raised
           /\ validation'.result.is_valid
           /\ validation'.result.errors = <<>>)
    ]_vars

\* C23 witness: the rule has answered valid for a MARKET order that carries a
\* price far from the context's market price.
C23_Witness ==
  /\ validation.called
  /\ validation.rules = <<EngineRules[1]>>
  /\ validation.order.order_type = "MARKET"
  /\ validation.order.price = Some(200)
  /\ Get(validation.context, "market_price") = Some(100)
  /\ validation.result.is_valid

\* C24: the position-limit rule fails exactly when current_position +
\* quantity * effective price > max_position_value, the effective price being
\* the order's price if it has one, else the context's market price, else 0
\* (a projected value equal to the ceiling passes).  The calls in which the
\* rule raises are the subject of C21 and are left aside here.
C24_PositionCeiling ==
  [][ AnsweredBy(<<EngineRules[2]>>) =>
        LET order == validation'.order
            context == validation'.context
            m == Get(context, "market_price")
            c == Get(context, "current_position")
            effective == IF order.price # None THEN Val(order.price)
                         ELSE IF m # None THEN Val(m) ELSE 0
            position == IF c # None THEN Val(c) ELSE 0
            r == validation'.result
        IN  ~r.raised =>
              (~r.is_valid <=>
                 (position + order.quantity * effective > Config.max_position_value))
    ]_vars

\* C25: cancelling the monitors changes no order and not the active-order
\* set, and a cancelled monitor, resumed in its sleep or in its status query,
\* ends (it catches the CancelledError) with every order, the active-order set
\* and the other monitors as they were.
C25_CancelledMonitorUnwinds ==
  [][ /\ (AnyCancelled(monitors') /\ ~AnyCancelled(monitors)) =>
           orders' = orders /\ active_orders' = active_orders
      /\ \A o \in OrderIds : \A m \in Mons(o) :
           MonitorCancelled(o, m) =>
             /\ orders' = orders
             /\ active_orders' = active_orders
             /\ monitors' = [monitors EXCEPT ![o] = @ (-) One(m)]
    ]_vars

\* C25 witness: stop() has cancelled, and is waiting for, a monitor that was
\* in its status query for an active SUBMITTED order.
C25_Witness ==
  /\ stop_call.pc = "gather"
  /\ \E o \in active_orders : \E m \in Mons(o) :
       m.cancelled /\ m.pc = "query" /\ orders[o].status = "SUBMITTED"

\* C26: a monitor does not overwrite a status that update_order_status
\* committed while the monitor's status query was in flight: when the order's
\* status is no longer the one it had when the query was sent, the step that
\* handles the answer to that query leaves the status alone.
C26_NoLostStatusUpdate ==
  [][ \A o \in OrderIds : \A m \in Mons(o) : \A r \in StatusAnswers :
        (MonitorStatus(o, m, r) /\ orders[o].status # m.seen)
          => orders'[o].status = orders[o].status
    ]_vars

\* C27: when a status query succeeds without an execution identifier, the
\* monitor does not end: the task is still alive after the step and will
\* poll the order again.
C27_SuccessKeepsMonitoring ==
  [][ \A o \in OrderIds : \A m \in Mons(o) :
        MonitorStatus(o, m, "success") =>
          BagCardinality(monitors'[o]) = BagCardinality(monitors[o])
    ]_vars

\* C28: a successful submit registers the order (add_order) and spawns one
\* monitor for it exactly when its status is SUBMITTED or PARTIALLY_FILLED;
\* the start_monitoring of a start() that succeeds spawns one monitor for
\* each active order in one of those statuses and none for any other order,
\* and when that start() returns every such order has exactly one live
\* monitor.
C28_MonitorsReArmed ==
  [][ /\ \A t \in IngestIds :
           (ingest[t].pc = "submit" /\ ingest'[t].pc = "ack") =>
             LET o == ingest[t].order
             IN  /\ o \in active_orders'
                 /\ monitors' = IF orders[o].status \in {"SUBMITTED", "PARTIALLY_FILLED"}
                                  THEN [monitors EXCEPT ![o] = @ (+) One(NewMonitor)]
                                  ELSE monitors
      /\ (start_call = "connect_broker" /\ start_call' = "idle"
            /\ ingest' # ingest) =>
           \A o \in OrderIds :
             IF o \in active_orders
                  /\ orders[o].status \in {"SUBMITTED", "PARTIALLY_FILLED"}
               THEN /\ monitors'[o] = monitors[o] (+) One(NewMonitor)
                    /\ BagCardinality(monitors'[o]) = 1
               ELSE monitors'[o] = monitors[o]
    ]_vars

\* C29: remove_order and update_order_status called with an identifier that
\* is not tracked change nothing; remove_order of a tracked identifier takes
\* exactly that entry out of the active-order set and touches no order and no
\* monitor; update_order_status of a tracked identifier writes that order's
\* status, and its execution_id when one is given, and nothing else.
C29_ManagerCallsFrame ==
  [][ \A o \in OrderIds :
        /\ RemoveOrder(o) =>
             /\ active_orders' = active_orders \ {o}
             /\ orders' = orders
             /\ monitors' = monitors
        /\ \A s \in StatusInputs, e \in ExecutionIds :
             UpdateOrderStatus(o, s, e) =>
               /\ active_orders' = active_orders
               /\ monitors' = monitors
               /\ \A x \in OrderIds \ {o} : orders'[x] = orders[x]
               /\ IF o \in active_orders
                    THEN orders'[o] =
                           [orders[o] EXCEPT
                              !.status = s,
                              !.execution_id = IF e = None THEN @ ELSE e]
                    ELSE orders'[o] = orders[o]
    ]_vars

\* C29 witness: an order that was tracked (its status was written, with an
\* execution_id) has been removed while another order is still tracked.
C29_Witness ==
  \E o \in OrderIds \ active_orders :
    /\ orders[o].status = "CANCELLED"
    /\ orders[o].execution_id # None
    /\ active_orders # {}

\* C30: every live monitoring task belongs to an order that is in the
\* active-order set; once remove_order or a successful cancel_order has taken
\* an order out of the set no monitor of it is alive.
C30_MonitorsOfActiveOrdersOnly ==
  \A o \in OrderIds : monitors[o] # EmptyBag => o \in active_orders

\* C31: whenever the system is STOPPED and neither start() nor stop() is in
\* progress, no ingestion task is alive.
C31_StoppedHasNoIngestion ==
  (~_running /\ start_call = "idle" /\ stop_call.pc = "idle")
    => \A t \in IngestIds : ingest[t].pc = "done"

C33_ReplaceWritesActiveOrdersOnly ==
  [][ \A o \in OrderIds :
        (orders'[o].price # orders[o].price
           \/ orders'[o].quantity # orders[o].quantity)
          => o \in active_orders
    ]_vars

\* C34: a status query that raises, or an answer whose interpretation raises,
\* ends the monitor it happened in and nothing else: every order keeps its
\* status and its place in the active-order set, every other monitor stays
\* as it was, and the ingestion task and the rest of the system are untouched.
C34_MonitorErrorIsContained ==
  [][ \A o \in OrderIds : \A m \in Mons(o) : \A r \in {"raised", "success"} :
        MonitorStatus(o, m, r) =>
          /\ monitors' = [monitors EXCEPT ![o] = @ (-) One(m)]
          /\ orders' = orders
          /\ active_orders' = active_orders
          /\ ingest' = ingest
          /\ _order_processor_task' = _order_processor_task
          /\ _running' = _running
    ]_vars

\* C34 witness: a monitor awaits the answer to its status query while a
\* second monitoring task and the ingestion task are alive.
C34_Witness ==
  /\ \E o \in active_orders : \E m \in Mons(o) :
       /\ m.pc = "query" /\ ~m.cancelled
       /\ LiveMonitors(monitors) = 2
  /\ _order_processor_task # 0
  /\ ingest[_order_processor_task].pc # "done"
  /\ ~ingest[_order_processor_task].cancelled

====
